---- MODULE Spec2Model ----
(***************************************************************************)
(* A model of the declaration-to-schema compiler of src/lib/index.ts       *)
(* (class Compiler).  One compilation walks the statements of the root     *)
(* module in order; every statement is translated by compileNode, a        *)
(* structural recursion over the syntax tree.                              *)
(*                                                                         *)
(* Syntax-tree nodes are records with a `kind` field.  Generated text is   *)
(* kept as a fragment: a record that names the template the code filled    *)
(* in and the pieces it filled it with.  The empty string '' is the        *)
(* fragment Empty.  Text that the code takes apart character by character  *)
(* (module specifiers, the suffix) is a sequence of one-character strings. *)
(***************************************************************************)
EXTENDS Integers, Sequences, FiniteSets, TLC

VARIABLES
  options,        \* this.options, fixed for one compilation
  exportedNames,  \* this.exportedNames
  node,           \* the root statement translated by the last step
  result,         \* what compileNode returned or threw for `node`
  kept,           \* number of non-empty statement fragments so far
  nstmts,         \* number of root statements translated so far
  pc,             \* "running" | "done" | "failed"
  returned        \* what Compiler.compile returned, Undefined before/without

vars == <<options, exportedNames, node, result, kept, nstmts, pc, returned>>

\* ---------------------------------------------------------------- bounds

\* Longest root module, in statements.
MaxStatements == 2
\* Longest member list of an interface, type literal or enum.
MaxMembers == 2

\* ------------------------------------------------------------- constants

\* `undefined`, for optional nodes and option values.
Undefined == [kind |-> "Undefined"]

\* A JavaScript string held as characters.
Str(chars) == [kind |-> "string", chars |-> chars]

\* const defaultSuffix = "-schema"
defaultSuffix == <<"-", "s", "c", "h", "e", "m", "a">>

\* const ignoreNode = ""
Empty == [k |-> "empty"]
ignoreNode == Empty

\* ------------------------------------------------- node's `path` (posix)

\* Index of the last character that is not a slash, 0 if there is none.
LastNonSlash(p) ==
  LET S == {i \in 1..Len(p) : p[i] # "/"}
  IN  IF S = {} THEN 0 ELSE CHOOSE i \in S : \A j \in S : j <= i

\* Index of the first character of the last path component, given the index
\* e of its last character.
StartOfPart(p, e) ==
  LET S == {i \in 1..e : p[i] = "/"}
  IN  IF S = {} THEN 1 ELSE (CHOOSE i \in S : \A j \in S : j <= i) + 1

\* path.dirname
dirname(p) ==
  LET e == LastNonSlash(p)
      \* the scan stops at index 1 (0-based), so a slash at the very start
      \* is never a separator
      S == {i \in 2..e : p[i] = "/"}
      hasRoot == Len(p) > 0 /\ p[1] = "/"
  IN  IF Len(p) = 0 THEN <<".">>
      ELSE IF S = {} THEN (IF hasRoot THEN <<"/">> ELSE <<".">>)
      ELSE LET end == CHOOSE i \in S : \A j \in S : j <= i
           IN  IF hasRoot /\ end = 2 THEN <<"/", "/">>
               ELSE SubSeq(p, 1, end - 1)

\* path.extname
extname(p) ==
  LET e == LastNonSlash(p)
      s == StartOfPart(p, e)
      D == {i \in s..e : p[i] = "."}
  IN  IF e = 0 \/ D = {} THEN <<>>
      ELSE LET startDot == CHOOSE i \in D : \A j \in D : j <= i
           IN  IF startDot = s THEN <<>>
               ELSE IF p[s] = "." /\ startDot = e /\ startDot = s + 1 THEN <<>>
               ELSE SubSeq(p, startDot, e)

\* path.basename(p, ext)
basename(p, ext) ==
  LET e == LastNonSlash(p)
      s == StartOfPart(p, e)
      part == IF e = 0 THEN <<>> ELSE SubSeq(p, s, e)
      n == Len(part) - Len(ext)
  IN  IF Len(ext) > 0 /\ Len(ext) <= Len(p)
      THEN IF ext = p THEN <<>>
           ELSE IF n > 0 /\ SubSeq(part, n + 1, Len(part)) = ext
                THEN SubSeq(part, 1, n)
                ELSE part
      ELSE part

\* String.prototype.startsWith, for a one-character prefix.
startsWith(chars, c) == Len(chars) > 0 /\ chars[1] = c

\* rawModuleSpecifier.substring(1, rawModuleSpecifier.length - 1)
StripQuotes(raw) == SubSeq(raw, 2, Len(raw) - 1)

\* -------------------------------------------------------------- fragments
\* The text templates of the code.  Strict is the trailing `.strict()`.

Raw(text)            == [k |-> "raw", text |-> text]
Call(name)           == [k |-> "call", name |-> name]
Valid(values)        == [k |-> "valid", values |-> values]
Lazy(name)           == [k |-> "lazy", name |-> name]
Items(item)          == [k |-> "items", item |-> item]
Ordered(members)     == [k |-> "ordered", members |-> members]
Alternatives(members) == [k |-> "alternatives", members |-> members]
Param(name, type, isOpt) ==
  [k |-> "param", name |-> name, type |-> type, optional |-> isOpt]
\* `'${name}': ${value}` with, when required, value followed by `.required()`
Entry(name, value, required) ==
  [k |-> "entry", name |-> name, value |-> value, required |-> required]
\* `Joi.object()${concats}.keys({ ...members })`
Keys(concats, members) ==
  [k |-> "keys", concats |-> concats, members |-> members]
\* `export const ${name} = ${expr}.strict();`
ExportConst(name, expr) == [k |-> "exportConst", name |-> name, expr |-> expr]
\* `import { ...parts } from '${outPath}'` and its `export` twin
FromClause(keyword, parts, outPath) ==
  [k |-> keyword, parts |-> parts, from |-> outPath]
\* Array.prototype.join: the fragments fs, none of them '', separated by sep
Joined(sep, parts) == [k |-> "joined", sep |-> sep, parts |-> parts]

IsEmptyText(f) == f = Empty
NonEmptyText(f) == f # Empty

\* The pieces of fs between occurrences of sep: a text that was itself
\* joined by sep counts piece by piece.
RECURSIVE Pieces(_, _)
Pieces(sep, fs) ==
  IF fs = <<>> THEN <<>>
  ELSE (IF Head(fs).k = "joined" /\ Head(fs).sep = sep
        THEN Head(fs).parts ELSE <<Head(fs)>>) \o Pieces(sep, Tail(fs))

\* Array.prototype.join.  Joining nothing gives ''; joining one string gives
\* that string; an '' among strings joined by "" leaves no trace.
Join(sep, fs) ==
  LET parts == Pieces(sep, IF sep = "" THEN SelectSeq(fs, NonEmptyText)
                           ELSE fs)
  IN  IF parts = <<>> THEN Empty
      ELSE IF Len(parts) = 1 THEN parts[1]
      ELSE Joined(sep, parts)

\* The first character of a fragment's text: every template of the code
\* starts with a fixed letter; an identifier starts with an identifier
\* character.
RECURSIVE FirstChar(_)
FirstChar(f) ==
  CASE f.k = "empty" -> ""
    [] f.k = "raw" -> "identifier-start"
    [] f.k \in {"exportConst", "export"} -> "e"
    [] f.k = "import" -> "i"
    [] f.k = "param" -> "P"
    [] f.k = "entry" -> "'"
    [] f.k = "joined" -> FirstChar(f.parts[1])
    [] OTHER -> "J"

\* ----------------------------------------------------------------- errors

NoError == [message |-> "none"]
\* `Node ${SyntaxKind[kind]} not supported by ts-joi-schema-generator: ...`
NodeNotSupported(kind) == [message |-> "Node not supported", kind |-> kind]
\* `Generics are not yet supported by ts-joi-schema-generator: ...`
GenericsNotSupported == [message |-> "Generics are not yet supported"]

\* What a call returned or threw.  `pushed` are the names the call appended
\* to this.exportedNames, in order; a push made before a throw stays.
Return(text)          == [text |-> text, pushed |-> <<>>, error |-> NoError]
ReturnPushing(text, pushed) ==
  [text |-> text, pushed |-> pushed, error |-> NoError]
Throw(error, pushed)  == [text |-> Empty, pushed |-> pushed, error |-> error]
Threw(r) == r.error # NoError

\* ------------------------------------------------------------ syntax tree
\* ts.Node, by kind, with the fields the compiler reads.

NodeArray(elements) == [kind |-> "NodeArray", elements |-> elements]
Keyword(kind) == [kind |-> kind]
\* `symbol` is checker.getSymbolAtLocation(id)
Identifier(text) ==
  [kind |-> "Identifier", text |-> text,
   symbol |-> [kind |-> "Symbol", name |-> text]]
UnresolvedIdentifier(text) ==
  [kind |-> "Identifier", text |-> text, symbol |-> Undefined]
StringLiteral(raw) == [kind |-> "StringLiteral", text |-> raw]
ParameterDeclaration(name, questionToken, type) ==
  [kind |-> "Parameter", name |-> name, questionToken |-> questionToken,
   type |-> type]
PropertySignature(name, questionToken, type) ==
  [kind |-> "PropertySignature", name |-> name,
   questionToken |-> questionToken, type |-> type]
MethodSignature(name) == [kind |-> "MethodSignature", name |-> name]
IndexSignature == [kind |-> "IndexSignature"]
TypeReference(typeName, typeArguments) ==
  [kind |-> "TypeReference", typeName |-> typeName,
   typeArguments |-> typeArguments]
FunctionType == [kind |-> "FunctionType"]
TypeLiteral(members) == [kind |-> "TypeLiteral", members |-> members]
ArrayType(elementType) == [kind |-> "ArrayType", elementType |-> elementType]
TupleType(elementTypes) ==
  [kind |-> "TupleType", elementTypes |-> elementTypes]
UnionType(types) == [kind |-> "UnionType", types |-> types]
LiteralType(text) == [kind |-> "LiteralType", text |-> text]
ParenthesizedType(type) == [kind |-> "ParenthesizedType", type |-> type]
\* `constantValue` is checker.getConstantValue(member)
EnumMember(constantValue) ==
  [kind |-> "EnumMember", constantValue |-> constantValue]
EnumDeclaration(tags, name, members) ==
  [kind |-> "EnumDeclaration", tags |-> tags, name |-> name,
   members |-> members]
ExpressionWithTypeArguments(expression) ==
  [kind |-> "ExpressionWithTypeArguments", expression |-> expression]
HeritageClause(types) == [kind |-> "HeritageClause", types |-> types]
InterfaceDeclaration(tags, name, members, heritageClauses) ==
  [kind |-> "InterfaceDeclaration", tags |-> tags, name |-> name,
   members |-> members, heritageClauses |-> heritageClauses]
TypeAliasDeclaration(tags, name, type) ==
  [kind |-> "TypeAliasDeclaration", tags |-> tags, name |-> name,
   type |-> type]
\* an element of `{ a, b as c }`
Specifier(propertyName, name) ==
  [kind |-> "Specifier", propertyName |-> propertyName, name |-> name]
NamedImports(elements) == [kind |-> "NamedImports", elements |-> elements]
NamespaceImport == [kind |-> "NamespaceImport"]
ImportClause(namedBindings) ==
  [kind |-> "ImportClause", namedBindings |-> namedBindings]
ImportDeclaration(importClause, moduleSpecifier) ==
  [kind |-> "ImportDeclaration", importClause |-> importClause,
   moduleSpecifier |-> moduleSpecifier]
NamedExports(elements) == [kind |-> "NamedExports", elements |-> elements]
ExportDeclaration(exportClause, moduleSpecifier) ==
  [kind |-> "ExportDeclaration", exportClause |-> exportClause,
   moduleSpecifier |-> moduleSpecifier]
SourceFile(fileName, statements) ==
  [kind |-> "SourceFile", fileName |-> fileName, statements |-> statements]
\* a constant value of an enum member
NumberValue(n) == [kind |-> "number", value |-> n]
StringValue(s) == [kind |-> "string", value |-> s]

\* The kinds compileNode's switch has a case for.
KeywordCalls ==
  [AnyKeyword |-> Call("any"), NumberKeyword |-> Call("number"),
   ObjectKeyword |-> Call("object"), BooleanKeyword |-> Call("boolean"),
   StringKeyword |-> Call("string"), SymbolKeyword |-> Call("symbol"),
   UndefinedKeyword |-> Valid(<<"undefined">>),
   NullKeyword |-> Valid(<<"null">>), NeverKeyword |-> Call("forbidden")]

\* ------------------------------------------------------ the type graph
\* What the type checker knows of the files beside the root file.  The
\* compiler only asks it for the symbol of a module specifier.

Chars_foo == <<"'", ".", "/", "f", "o", "o", "'">>
Chars_bar == <<"'", ".", "/", "b", "a", "r", "'">>
Chars_gen == <<"'", ".", "/", "g", "e", "n", "'">>
Chars_libfoo ==
  <<"'", ".", ".", "/", "l", "i", "b", "/", "f", "o", "o", ".", "t", "s", "'">>
Chars_joi == <<"'", "j", "o", "i", "'">>

SchemaTag == <<"@schema">>

\* foo.ts:  const k = 1
\*          /** @schema */ interface A { x: number }
\*          /** @schema */ enum B { b = 1 }
File_foo ==
  SourceFile("foo.ts",
    << Keyword("VariableStatement"),
       InterfaceDeclaration(SchemaTag, Identifier("A"),
         <<PropertySignature(Identifier("x"), FALSE, Keyword("NumberKeyword"))>>,
         Undefined),
       EnumDeclaration(SchemaTag, Identifier("B"),
         <<EnumMember(NumberValue(1))>>) >>)

\* bar.ts:  import './foo'
\*          /** @schema */ type A = string
File_bar ==
  SourceFile("bar.ts",
    << ImportDeclaration(Undefined, StringLiteral(Chars_foo)),
       TypeAliasDeclaration(SchemaTag, Identifier("A"),
         Keyword("StringKeyword")) >>)

\* gen.ts:  /** @schema */ interface B { p: Promise<number>; [k: string]: any }
File_gen ==
  SourceFile("gen.ts",
    << InterfaceDeclaration(SchemaTag, Identifier("B"),
         << PropertySignature(Identifier("p"), FALSE,
              TypeReference("Promise",
                NodeArray(<<Keyword("NumberKeyword")>>))),
            IndexSignature >>,
         Undefined) >>)

Declaration(n, parent) == [node |-> n, parent |-> parent]
ModuleSymbol(declarations) ==
  [kind |-> "Symbol", declarations |-> NodeArray(declarations)]

\* checker.getSymbolAtLocation(node.moduleSpecifier): the module's symbol,
\* whose declarations are its source file, or for an ambient module its
\* `declare module "joi"` statement; undefined for a file that is not there.
getSymbolAtLocation(moduleSpecifier) ==
  CASE moduleSpecifier.text = Chars_foo ->
         ModuleSymbol(<<Declaration(File_foo, "Undefined")>>)
    [] moduleSpecifier.text = Chars_bar ->
         ModuleSymbol(<<Declaration(File_bar, "Undefined")>>)
    [] moduleSpecifier.text = Chars_gen ->
         ModuleSymbol(<<Declaration(File_gen, "Undefined")>>)
    [] moduleSpecifier.text = Chars_joi ->
         ModuleSymbol(<<Declaration(Keyword("ModuleDeclaration"),
                                    "SourceFile")>>)
    [] OTHER -> Undefined

\* --------------------------------------------------------------- compiler

\* The file Compiler.compile was called on (this.topNode).
topNode == "root.ts"

\* ts.isSourceFile(node.parent), the parent given by its kind
isSourceFile_Always(parent) == TRUE
isSourceFile(parent) == parent = "SourceFile"

\* Compiler.getName
getName(id) == IF id.symbol # Undefined THEN id.symbol.name ELSE "unknown"

\* Compiler.hasTag: some JSDoc tag's text is `@${tagName}`
hasTag_AnyTag(n, tagName) == n.tags # <<>>
hasTag(n, tagName) ==
  \E i \in DOMAIN n.tags : n.tags[i] = "@" \o tagName

\* getTextOfConstantValue; ts.getTextOfConstantValue quotes a string and
\* prints a number
getTextOfConstantValue_Quoted(value) ==
  IF value = Undefined THEN "\"undefined\""
  ELSE IF value.kind = "string" THEN "\"" \o value.value \o "\""
  ELSE ToString(value.value)
getTextOfConstantValue(value) ==
  IF value = Undefined THEN "undefined"
  ELSE IF value.kind = "string" THEN "\"" \o value.value \o "\""
  ELSE ToString(value.value)

RECURSIVE compileNode(_, _)
RECURSIVE compileNodes(_, _)

\* nodes.map(this.compileNode, this): left to right, stopping at a throw
compileNodes(nodes, parent) ==
  IF nodes = <<>>
  THEN [texts |-> <<>>, pushed |-> <<>>, error |-> NoError]
  ELSE LET h == compileNode(Head(nodes), parent)
       IN  IF Threw(h)
           THEN [texts |-> <<>>, pushed |-> h.pushed, error |-> h.error]
           ELSE LET t == compileNodes(Tail(nodes), parent)
                IN  [texts |-> <<h.text>> \o t.texts,
                     pushed |-> h.pushed \o t.pushed, error |-> t.error]

\* Compiler.compileOptType
compileOptType(typeNode, parent) ==
  IF typeNode # Undefined THEN compileNode(typeNode, parent)
  ELSE Return(Call("any"))

_compileIdentifier(n) == Return(Raw(n.text))

_compileParameterDeclaration(n) ==
  LET type == compileOptType(n.type, n.kind)
  IN  IF Threw(type) THEN type
      ELSE ReturnPushing(Param(getName(n.name), type.text, n.questionToken),
                         type.pushed)

_compilePropertySignature_AlwaysRequired(n) ==
  LET name == getName(n.name)
      prop == compileOptType(n.type, n.kind)
  IN  IF Threw(prop) THEN prop
      ELSE ReturnPushing(Entry(name, prop.text, TRUE), prop.pushed)

_compilePropertySignature(n) ==
  LET name == getName(n.name)
      prop == compileOptType(n.type, n.kind)
  IN  IF Threw(prop) THEN prop
      ELSE ReturnPushing(Entry(name, prop.text, ~n.questionToken),
                         prop.pushed)

_compileMethodSignature(n) ==
  Return(Entry(getName(n.name), Call("func"), TRUE))

_compileTypeReferenceNode_FlagFirst(n) ==
  IF n.typeArguments = Undefined
  THEN CASE n.typeName = "Date" -> Return(Call("date"))
         [] n.typeName = "Buffer" -> Return(Call("binary"))
         [] OTHER -> Return(Lazy(n.typeName))
  ELSE IF options.ignoreGenerics
  THEN Return(Call("any"))
  ELSE IF n.typeName = "Array"
  THEN LET item == compileNode(n.typeArguments.elements[1], n.kind)
       IN  IF Threw(item) THEN item
           ELSE ReturnPushing(Items(item.text), item.pushed)
  ELSE Throw(GenericsNotSupported, <<>>)

_compileTypeReferenceNode(n) ==
  IF n.typeArguments = Undefined
  THEN CASE n.typeName = "Date" -> Return(Call("date"))
         [] n.typeName = "Buffer" -> Return(Call("binary"))
         [] OTHER -> Return(Lazy(n.typeName))
  ELSE IF n.typeName = "Array"
  THEN LET item == compileNode(n.typeArguments.elements[1], n.kind)
       IN  IF Threw(item) THEN item
           ELSE ReturnPushing(Items(item.text), item.pushed)
  ELSE IF options.ignoreGenerics
  THEN Return(Call("any"))
  ELSE Throw(GenericsNotSupported, <<>>)

_compileFunctionTypeNode(n) == Return(Call("func"))

\* every member's text becomes an entry line, the empty text too
_compileTypeLiteralNode(n) ==
  LET members == compileNodes(n.members, n.kind)
  IN  IF Threw(members) THEN Throw(members.error, members.pushed)
      ELSE ReturnPushing(Keys(<<>>, members.texts), members.pushed)

_compileArrayTypeNode(n) ==
  LET item == compileNode(n.elementType, n.kind)
  IN  IF Threw(item) THEN item
      ELSE ReturnPushing(Items(item.text), item.pushed)

_compileTupleTypeNode(n) ==
  LET members == compileNodes(n.elementTypes, n.kind)
  IN  IF Threw(members) THEN Throw(members.error, members.pushed)
      ELSE ReturnPushing(Ordered(members.texts), members.pushed)

_compileUnionTypeNode(n) ==
  LET members == compileNodes(n.types, n.kind)
  IN  IF Threw(members) THEN Throw(members.error, members.pushed)
      ELSE ReturnPushing(Alternatives(members.texts), members.pushed)

_compileLiteralTypeNode(n) == Return(Valid(<<n.text>>))

_compileEnumDeclaration(n) ==
  IF ~hasTag(n, "schema") THEN Return(Empty)
  ELSE LET name == getName(n.name)
           values == [i \in DOMAIN n.members |->
                        getTextOfConstantValue(n.members[i].constantValue)]
       IN  ReturnPushing(ExportConst(name, Valid(values)), <<name>>)

\* h.types.map(this.compileNode, this) for every heritage clause h, in order
RECURSIVE compileHeritage(_)
compileHeritage(clauses) ==
  IF clauses = <<>>
  THEN [texts |-> <<>>, pushed |-> <<>>, error |-> NoError]
  ELSE LET h == compileNodes(Head(clauses).types, "HeritageClause")
       IN  IF Threw(h) THEN h
           ELSE LET t == compileHeritage(Tail(clauses))
                IN  [texts |-> h.texts \o t.texts,
                     pushed |-> h.pushed \o t.pushed, error |-> t.error]

\* extend.indexOf('Array') !== -1
hasArray_Never(extend) == FALSE
hasArray(extend) == \E i \in DOMAIN extend : extend[i] = Raw("Array")

_compileInterfaceDeclaration(n) ==
  IF ~hasTag(n, "schema") THEN Return(Empty)
  ELSE
    LET name == getName(n.name)
        compiled == compileNodes(n.members, n.kind)
        members == SelectSeq(compiled.texts, LAMBDA t : t # ignoreNode)
        extend == IF n.heritageClauses # Undefined
                  THEN compileHeritage(n.heritageClauses.elements)
                  ELSE [texts |-> <<>>, pushed |-> <<>>, error |-> NoError]
    IN  IF Threw(compiled) THEN Throw(compiled.error, compiled.pushed)
        ELSE IF Threw(extend)
        THEN Throw(extend.error, compiled.pushed \o extend.pushed)
        \* has array, unsupported, just don't generate stuff
        ELSE IF hasArray(extend.texts)
        THEN ReturnPushing(Empty, compiled.pushed \o extend.pushed)
        ELSE ReturnPushing(ExportConst(name, Keys(extend.texts, members)),
                           compiled.pushed \o extend.pushed \o <<name>>)

_compileTypeAliasDeclaration(n) ==
  IF ~hasTag(n, "schema") THEN Return(Empty)
  ELSE
    LET name == getName(n.name)
        compiled == compileNode(n.type, n.kind)
        fullType == IF FirstChar(compiled.text) = "\""
                    THEN Valid(<<compiled.text>>) ELSE compiled.text
    IN  \* the name is pushed before the aliased type is compiled
        IF Threw(compiled) THEN Throw(compiled.error, <<name>> \o compiled.pushed)
        ELSE ReturnPushing(ExportConst(name, fullType),
                           <<name>> \o compiled.pushed)

_compileExpressionWithTypeArguments(n) == compileNode(n.expression, n.kind)

_compileParenthesizedTypeNode(n) == compileNode(n.type, n.kind)

\* `${propertyName} as ${name}` or `${name}`, as its words
SpecifierPart(element) ==
  IF element.propertyName # Undefined
  THEN <<element.propertyName.text, "as", element.name.text>>
  ELSE <<element.name.text>>

\* options.outDir is truthy: set and not ''
HasOutDir == options.outDir # Undefined /\ options.outDir.chars # <<>>

\* const outPath = `${dir}${path.basename(filePath, ext) + suffix}`
OutPath(filePath) ==
  LET ext == extname(filePath)
      dir == IF HasOutDir THEN <<".", "/">> ELSE dirname(filePath)
  IN  dir \o basename(filePath, ext) \o options.suffix

_compileExportDeclaration(n) ==
  IF n.exportClause # Undefined /\ n.moduleSpecifier # Undefined
     /\ startsWith(StripQuotes(n.moduleSpecifier.text), ".")
  THEN LET moduleSpecifier == StripQuotes(n.moduleSpecifier.text)
           parts == [i \in DOMAIN n.exportClause.elements |->
                       SpecifierPart(n.exportClause.elements[i])]
       IN  Return(FromClause("export", parts, OutPath(moduleSpecifier)))
  ELSE Return(Empty)

_compileImportDeclaration(n) ==
  LET moduleSpecifier == StripQuotes(n.moduleSpecifier.text)
      namedBindings == n.importClause.namedBindings
      importedSym == getSymbolAtLocation(n.moduleSpecifier)
  IN  IF /\ n.importClause # Undefined
         /\ startsWith(moduleSpecifier, ".")
         /\ namedBindings # Undefined
         /\ namedBindings.kind = "NamedImports"
      THEN LET parts == [i \in DOMAIN namedBindings.elements |->
                           SpecifierPart(namedBindings.elements[i])]
           IN  Return(FromClause("import", parts, OutPath(moduleSpecifier)))
      ELSE IF options.inlineImports /\ importedSym # Undefined
              /\ importedSym.declarations # Undefined
      THEN LET ds == importedSym.declarations.elements
               RECURSIVE each(_)
               each(i) ==
                 IF i > Len(ds)
                 THEN [texts |-> <<>>, pushed |-> <<>>, error |-> NoError]
                 ELSE LET h == compileNode(ds[i].node, ds[i].parent)
                      IN  IF Threw(h)
                          THEN [texts |-> <<>>, pushed |-> h.pushed,
                                error |-> h.error]
                          ELSE LET t == each(i + 1)
                               IN  [texts |-> <<h.text>> \o t.texts,
                                    pushed |-> h.pushed \o t.pushed,
                                    error |-> t.error]
               all == each(1)
           IN  IF Threw(all) THEN Throw(all.error, all.pushed)
               ELSE ReturnPushing(Join("", all.texts), all.pushed)
      ELSE Return(Empty)

\* node.statements.map(this.compileNode, this).filter((s) => s).join("\n\n")
_compileSourceFileStatements(n) ==
  LET statements == compileNodes(n.statements, n.kind)
  IN  IF Threw(statements) THEN Throw(statements.error, statements.pushed)
      ELSE ReturnPushing(
             Join("\n\n", SelectSeq(statements.texts, NonEmptyText)),
             statements.pushed)

\* How many blocks separated by a blank line a text consists of.
Blocks(f) ==
  IF f = Empty THEN 0
  ELSE IF f.k = "joined" /\ f.sep = "\n\n" THEN Len(f.parts)
  ELSE 1

\* the preamble `import * as Joi from "joi"; ...`, then `blocks` statement
\* texts joined by blank lines, then "\n\n"
Wrapped(blocks) == [k |-> "module", blocks |-> blocks]

_compileSourceFile(n) ==
  IF n.fileName # topNode THEN _compileSourceFileStatements(n)
  ELSE LET body == _compileSourceFileStatements(n)
       IN  IF Threw(body) THEN body
           ELSE ReturnPushing(Wrapped(Blocks(body.text)), body.pushed)

_compileIndexSignatureDeclaration(n) ==
  IF options.ignoreIndexSignature THEN Return(ignoreNode)
  ELSE Throw(NodeNotSupported(n.kind), <<>>)

compileNode(n, parent) ==
  CASE n.kind = "Identifier" -> _compileIdentifier(n)
    [] n.kind = "Parameter" -> _compileParameterDeclaration(n)
    [] n.kind = "PropertySignature" -> _compilePropertySignature(n)
    [] n.kind = "MethodSignature" -> _compileMethodSignature(n)
    [] n.kind = "TypeReference" -> _compileTypeReferenceNode(n)
    [] n.kind = "FunctionType" -> _compileFunctionTypeNode(n)
    [] n.kind = "TypeLiteral" -> _compileTypeLiteralNode(n)
    [] n.kind = "ArrayType" -> _compileArrayTypeNode(n)
    [] n.kind = "TupleType" -> _compileTupleTypeNode(n)
    [] n.kind = "UnionType" -> _compileUnionTypeNode(n)
    [] n.kind = "LiteralType" -> _compileLiteralTypeNode(n)
    [] n.kind = "EnumDeclaration" -> _compileEnumDeclaration(n)
    [] n.kind = "InterfaceDeclaration" -> _compileInterfaceDeclaration(n)
    [] n.kind = "TypeAliasDeclaration" -> _compileTypeAliasDeclaration(n)
    [] n.kind = "ExpressionWithTypeArguments" ->
         _compileExpressionWithTypeArguments(n)
    [] n.kind = "ParenthesizedType" -> _compileParenthesizedTypeNode(n)
    [] n.kind = "ExportDeclaration" -> _compileExportDeclaration(n)
    [] n.kind = "ImportDeclaration" -> _compileImportDeclaration(n)
    [] n.kind = "SourceFile" -> _compileSourceFile(n)
    [] n.kind \in DOMAIN KeywordCalls -> Return(KeywordCalls[n.kind])
    [] n.kind = "IndexSignature" -> _compileIndexSignatureDeclaration(n)
    \* Skip top-level statements that we haven't handled.
    [] OTHER -> IF isSourceFile(parent) THEN Return(Empty)
                ELSE Throw(NodeNotSupported(n.kind), <<>>)

\* ----------------------------------------------------------------- inputs
\* The root modules the model compiles: every sequence of at most
\* MaxStatements statements drawn from the sets below.

TagLists == {<<>>, <<"@schema">>, <<"@internal">>}

OptionSets ==
  [ignoreGenerics : BOOLEAN, ignoreIndexSignature : BOOLEAN,
   inlineImports : BOOLEAN, outDir : {Undefined, Str(<<"o", "u", "t">>)},
   suffix : {defaultSuffix}]

SeqsUpTo(S, n) == UNION {[1..m -> S] : m \in 0..n}

\* Promise<number>
GenericType ==
  TypeReference("Promise", NodeArray(<<Keyword("NumberKeyword")>>))

BaseTypes ==
  {Keyword(k) : k \in DOMAIN KeywordCalls}
  \cup {TypeReference(t, Undefined) : t \in {"Date", "Buffer", "Foo"}}
  \cup {LiteralType("\"A\""), FunctionType, Keyword("VoidKeyword"),
        GenericType}

\* Members of an interface:  x: number;  y?: number;  f(): void;
\* [k: string]: any
Members ==
  { PropertySignature(Identifier("x"), FALSE, Keyword("NumberKeyword")),
    PropertySignature(Identifier("y"), TRUE, Keyword("NumberKeyword")),
    MethodSignature(Identifier("f")),
    IndexSignature }

MemberLists == SeqsUpTo(Members, MaxMembers)

\* Members of a type literal:  x: Promise<number>;  y?;  [k: string]: any
LiteralMembers ==
  { PropertySignature(Identifier("x"), FALSE, GenericType),
    PropertySignature(Identifier("y"), TRUE, Undefined),
    IndexSignature }

\* t[];  Array<t>;  Map<t, t>;  (t);  t | number;  [string, t]
Wrap(t) ==
  { ArrayType(t), TypeReference("Array", NodeArray(<<t>>)),
    TypeReference("Map", NodeArray(<<t, t>>)), ParenthesizedType(t),
    UnionType(<<t, Keyword("NumberKeyword")>>),
    TupleType(<<Keyword("StringKeyword"), t>>) }

ElementTypes ==
  { Keyword("NumberKeyword"), TypeReference("Foo", Undefined),
    LiteralType("\"A\""), GenericType, Keyword("VoidKeyword"),
    TypeLiteral(<<IndexSignature>>) }

AliasTypes ==
  BaseTypes
  \cup UNION {Wrap(t) : t \in ElementTypes}
  \cup UNION {Wrap(t) : t \in UNION {Wrap(e) :
                 e \in {GenericType, Keyword("VoidKeyword")}}}
  \cup {TypeLiteral(ms) : ms \in SeqsUpTo(LiteralMembers, MaxMembers)}
  \cup {TypeLiteral(<<MethodSignature(Identifier("f")),
                      Keyword("CallSignature")>>)}

EnumValues == {NumberValue(1), StringValue("a"), Undefined}

EnumDeclarations ==
  { EnumDeclaration(tags, Identifier("A"), members) :
      tags \in TagLists,
      members \in SeqsUpTo({EnumMember(v) : v \in EnumValues}, MaxMembers) }

\* no `extends`;  extends Base;  extends Array<T>;  extends ns.Base, Array<T>
HeritageClauses ==
  { Undefined,
    NodeArray(<<HeritageClause(<<ExpressionWithTypeArguments(Identifier("Base"))>>)>>),
    NodeArray(<<HeritageClause(<<ExpressionWithTypeArguments(Identifier("Array"))>>)>>),
    NodeArray(<<HeritageClause(<<ExpressionWithTypeArguments(
                                   Keyword("PropertyAccessExpression")),
                                 ExpressionWithTypeArguments(Identifier("Array"))>>)>>) }

InterfaceDeclarations ==
  { InterfaceDeclaration(tags, Identifier("A"), members, heritage) :
      tags \in TagLists, members \in MemberLists,
      heritage \in HeritageClauses }

TypeAliasDeclarations ==
  { TypeAliasDeclaration(tags, Identifier("B"), type) :
      tags \in TagLists, type \in AliasTypes }

ModuleSpecifiers ==
  { StringLiteral(c) :
      c \in {Chars_foo, Chars_bar, Chars_gen, Chars_libfoo, Chars_joi} }

\* { A };  { A as B };  { A, B as C }
SpecifierLists ==
  { <<Specifier(Undefined, Identifier("A"))>>,
    <<Specifier(Identifier("A"), Identifier("B"))>>,
    <<Specifier(Undefined, Identifier("A")),
      Specifier(Identifier("B"), Identifier("C"))>> }

\* import 'm';  import d from 'm';  import * as n from 'm';
\* import { ... } from 'm'
ImportDeclarations ==
  { ImportDeclaration(clause, m) :
      clause \in {Undefined, ImportClause(Undefined),
                  ImportClause(NamespaceImport)}
                 \cup {ImportClause(NamedImports(es)) : es \in SpecifierLists},
      m \in ModuleSpecifiers }

\* export * from 'm';  export { ... };  export { ... } from 'm'
ExportDeclarations ==
  { ExportDeclaration(clause, m) :
      clause \in {Undefined} \cup {NamedExports(es) : es \in SpecifierLists},
      m \in {Undefined} \cup ModuleSpecifiers }

\* statements the switch has no case for
OtherStatements ==
  {Keyword("VariableStatement"), Keyword("FunctionDeclaration"),
   Keyword("ClassDeclaration")}

TypeOK ==
  /\ options \in OptionSets
  /\ pc \in {"running", "returned", "done", "failed"}
  /\ nstmts \in 0..MaxStatements
  /\ kept \in Nat

\* ---------------------------------------------------------------- actions

\* new Compiler(checker, options, topNode): the state before the first
\* statement of the root file is translated.
Init ==
  /\ options \in OptionSets
  /\ exportedNames = <<>>
  /\ node = Undefined
  /\ result = Undefined
  /\ kept = 0
  /\ nstmts = 0
  /\ pc = "running"
  /\ returned = Undefined

\* One call of the callback of node.statements.map(this.compileNode, this)
\* on the root file translates the next statement: what the call pushed is
\* in this.exportedNames; a throw ends the compilation, nothing catches it.
CanTranslate == pc = "running" /\ nstmts < MaxStatements
\* .filter((s) => s) keeps the text unless it is ''
KeptAfter(r) == IF Threw(r) THEN kept ELSE kept + Blocks(r.text)
PcAfter(r) == IF Threw(r) THEN "failed" ELSE "returned"

\* case ts.SyntaxKind.EnumDeclaration
TranslateEnum ==
  \E n \in EnumDeclarations :
    LET r == compileNode(n, "SourceFile")
    IN  /\ CanTranslate
        /\ node' = n
        /\ result' = r
        /\ exportedNames' = exportedNames \o r.pushed
        /\ kept' = KeptAfter(r)
        /\ nstmts' = nstmts + 1
        /\ pc' = PcAfter(r)
        /\ UNCHANGED <<options, returned>>

\* case ts.SyntaxKind.InterfaceDeclaration
TranslateInterface ==
  \E n \in InterfaceDeclarations :
    LET r == compileNode(n, "SourceFile")
    IN  /\ CanTranslate
        /\ node' = n
        /\ result' = r
        /\ exportedNames' = exportedNames \o r.pushed
        /\ kept' = KeptAfter(r)
        /\ nstmts' = nstmts + 1
        /\ pc' = PcAfter(r)
        /\ UNCHANGED <<options, returned>>

\* case ts.SyntaxKind.TypeAliasDeclaration
TranslateTypeAlias ==
  \E n \in TypeAliasDeclarations :
    LET r == compileNode(n, "SourceFile")
    IN  /\ CanTranslate
        /\ node' = n
        /\ result' = r
        /\ exportedNames' = exportedNames \o r.pushed
        /\ kept' = KeptAfter(r)
        /\ nstmts' = nstmts + 1
        /\ pc' = PcAfter(r)
        /\ UNCHANGED <<options, returned>>

\* case ts.SyntaxKind.ImportDeclaration
TranslateImport ==
  \E n \in ImportDeclarations :
    LET r == compileNode(n, "SourceFile")
    IN  /\ CanTranslate
        /\ node' = n
        /\ result' = r
        /\ exportedNames' = exportedNames \o r.pushed
        /\ kept' = KeptAfter(r)
        /\ nstmts' = nstmts + 1
        /\ pc' = PcAfter(r)
        /\ UNCHANGED <<options, returned>>

\* case ts.SyntaxKind.ExportDeclaration
TranslateExport ==
  \E n \in ExportDeclarations :
    LET r == compileNode(n, "SourceFile")
    IN  /\ CanTranslate
        /\ node' = n
        /\ result' = r
        /\ exportedNames' = exportedNames \o r.pushed
        /\ kept' = KeptAfter(r)
        /\ nstmts' = nstmts + 1
        /\ pc' = PcAfter(r)
        /\ UNCHANGED <<options, returned>>

\* a statement of a kind the switch has no case for
TranslateOther ==
  \E n \in OtherStatements :
    LET r == compileNode(n, "SourceFile")
    IN  /\ CanTranslate
        /\ node' = n
        /\ result' = r
        /\ exportedNames' = exportedNames \o r.pushed
        /\ kept' = KeptAfter(r)
        /\ nstmts' = nstmts + 1
        /\ pc' = PcAfter(r)
        /\ UNCHANGED <<options, returned>>

\* The callback has returned; map goes on to the next statement, if any.
NextStatement ==
  /\ pc = "returned"
  /\ pc' = "running"
  /\ node' = Undefined
  /\ result' = Undefined
  /\ UNCHANGED <<options, exportedNames, kept, nstmts, returned>>

\* The root file has no more statements: _compileSourceFile wraps the kept
\* texts and Compiler.compile returns.
Finish ==
  /\ pc = "running"
  /\ pc' = "done"
  /\ returned' = Wrapped(kept)
  /\ UNCHANGED <<options, exportedNames, node, result, kept, nstmts>>

Next ==
  \/ TranslateEnum
  \/ TranslateInterface
  \/ TranslateTypeAlias
  \/ TranslateImport
  \/ TranslateExport
  \/ TranslateOther
  \/ NextStatement
  \/ Finish

Spec == Init /\ [][Next]_vars

\* ------------------------------------------------------------ properties
\* `node` is the root statement the last step translated and `result` what
\* the call returned or threw; both are Undefined between two statements.

IsDeclaration(n) ==
  n.kind \in {"EnumDeclaration", "InterfaceDeclaration",
              "TypeAliasDeclaration"}
CarriesMarker(n) == \E i \in 1..Len(n.tags) : n.tags[i] = "@schema"
Tagged(kind) == node.kind = kind /\ CarriesMarker(node)
Dropped == [text |-> Empty, pushed |-> <<>>, error |-> NoError]
IsRelative(moduleSpecifier) == moduleSpecifier.text[2] = "."

\* C1: translating an enum, interface or type alias without the @schema tag
\* returns '', leaves exportedNames as it was and throws nothing, whatever
\* the declaration contains.
C1_UntaggedDeclarationDropped ==
  [][ (IsDeclaration(node') /\ ~CarriesMarker(node'))
        => /\ result' = Dropped
           /\ exportedNames' = exportedNames
           /\ pc' = "returned" ]_vars

\* an untagged alias of a kind the switch has no case for was dropped
C1_Witness ==
  /\ node.kind = "TypeAliasDeclaration"
  /\ node.tags = <<"@internal">>
  /\ node.type = Keyword("VoidKeyword")
  /\ result = Dropped
  /\ pc = "returned"

\* A tagged interface for which `export const ... keys({...})` was emitted.
InterfaceCompiled ==
  /\ Tagged("InterfaceDeclaration")
  /\ ~Threw(result)
  /\ result.text # Empty
FieldsOf(n) == SelectSeq(n.members, LAMBDA m : m.kind = "PropertySignature")
NamedMembersOf(n) ==
  SelectSeq(n.members,
            LAMBDA m : m.kind \in {"PropertySignature", "MethodSignature"})

\* C2 as claimed: the object shape of a tagged interface has one entry per
\* field, in declaration order, and exactly the entries of the fields
\* without `?` are required.
C2_EntriesAreTheFields ==
  InterfaceCompiled =>
    LET fs == FieldsOf(node)
        es == result.text.expr.members
    IN  /\ Len(es) = Len(fs)
        /\ \A i \in 1..Len(fs) :
             /\ es[i].name = fs[i].name.text
             /\ es[i].required = ~fs[i].questionToken

\* C2 as amended: the object shape has one entry per field and per method,
\* in declaration order (N + M + K entries); the entries of the fields
\* without `?` and of the methods are required, those of the fields with
\* `?` are not; an ignored index signature adds no entry.
C2_EntriesAreFieldsAndMethods ==
  InterfaceCompiled =>
    LET ms == NamedMembersOf(node)
        es == result.text.expr.members
    IN  /\ result.text.k = "exportConst"
        /\ result.text.expr.k = "keys"
        /\ Len(es) = Len(ms)
        /\ \A i \in 1..Len(ms) :
             /\ es[i].k = "entry"
             /\ es[i].name = ms[i].name.text
             /\ es[i].required =
                  (ms[i].kind = "MethodSignature" \/ ~ms[i].questionToken)

\* `interface A { y?: number; f(): void }` was compiled to two entries
C2_Witness ==
  /\ InterfaceCompiled
  /\ Len(node.members) = 2
  /\ node.members[1].kind = "PropertySignature"
  /\ node.members[1].questionToken
  /\ node.members[2].kind = "MethodSignature"
  /\ Len(result.text.expr.members) = 2

\* An import or export with named bindings from a relative module.
NamedRelative ==
  \/ /\ node.kind = "ImportDeclaration"
     /\ node.importClause # Undefined
     /\ node.importClause.namedBindings # Undefined
     /\ node.importClause.namedBindings.kind = "NamedImports"
     /\ IsRelative(node.moduleSpecifier)
  \/ /\ node.kind = "ExportDeclaration"
     /\ node.exportClause # Undefined
     /\ node.moduleSpecifier # Undefined
     /\ IsRelative(node.moduleSpecifier)
ElementsOf(n) ==
  IF n.kind = "ImportDeclaration" THEN n.importClause.namedBindings.elements
  ELSE n.exportClause.elements

\* C3: with no outDir, the emitted specifier is the directory of the original
\* one, a slash, and its base name without extension followed by the suffix
\* (./foo becomes ./foo-schema); every element keeps `original as local`.
C3_SpecifierKeepsDirectory ==
  (NamedRelative /\ options.outDir = Undefined) =>
    LET p == StripQuotes(node.moduleSpecifier.text)
        es == ElementsOf(node)
    IN  /\ result.text.from =
             dirname(p) \o <<"/">> \o basename(p, extname(p)) \o options.suffix
        /\ Len(result.text.parts) = Len(es)
        /\ \A i \in 1..Len(es) :
             result.text.parts[i] =
               IF es[i].propertyName # Undefined
               THEN <<es[i].propertyName.text, "as", es[i].name.text>>
               ELSE <<es[i].name.text>>

\* A tagged alias of a type reference with type arguments.
AliasOfParametrized ==
  /\ Tagged("TypeAliasDeclaration")
  /\ node.type.kind = "TypeReference"
  /\ node.type.typeArguments # Undefined
Bound(expr) ==
  [text |-> ExportConst("B", expr), pushed |-> <<"B">>, error |-> NoError]
Failed(error) == result.error = error /\ result.text = Empty /\ pc = "failed"

\* C4: Array<T> is translated to `Joi.array().items(<T translated>)` with
\* ignoreGenerics set or not; any other reference with type arguments throws
\* "Generics are not yet supported" when ignoreGenerics is unset and is
\* translated to `Joi.any()` when it is set.
C4_ArrayAlwaysOtherGenericsByFlag ==
  AliasOfParametrized =>
    LET arg == node.type.typeArguments.elements[1]
    IN  IF node.type.typeName = "Array"
        THEN /\ ~Threw(result) => result.text.expr.k = "items"
             /\ arg = Keyword("NumberKeyword")
                  => result = Bound(Items(Call("number")))
             /\ arg = TypeReference("Foo", Undefined)
                  => result = Bound(Items(Lazy("Foo")))
             /\ arg = LiteralType("\"A\"")
                  => result = Bound(Items(Valid(<<"\"A\"">>)))
             /\ arg = GenericType
                  => IF options.ignoreGenerics
                     THEN result = Bound(Items(Call("any")))
                     ELSE Failed(GenericsNotSupported)
             /\ arg = Keyword("VoidKeyword")
                  => Failed(NodeNotSupported("VoidKeyword"))
             /\ arg = TypeLiteral(<<IndexSignature>>)
                  => IF options.ignoreIndexSignature
                     THEN result = Bound(Items(Keys(<<>>, <<Empty>>)))
                     ELSE Failed(NodeNotSupported("IndexSignature"))
        ELSE IF options.ignoreGenerics
             THEN result = Bound(Call("any")) /\ pc = "returned"
             ELSE Failed(GenericsNotSupported)

\* `type B = Array<number>` was compiled with ignoreGenerics unset
C4_Witness ==
  /\ AliasOfParametrized
  /\ node.type.typeName = "Array"
  /\ node.type.typeArguments.elements[1] = Keyword("NumberKeyword")
  /\ ~options.ignoreGenerics
  /\ result = Bound(Items(Call("number")))
  /\ pc = "returned"

\* The kinds compileNode's switch names.
SupportedKinds ==
  {"Identifier", "Parameter", "PropertySignature", "MethodSignature",
   "TypeReference", "FunctionType", "TypeLiteral", "ArrayType", "TupleType",
   "UnionType", "LiteralType", "EnumDeclaration", "InterfaceDeclaration",
   "TypeAliasDeclaration", "ExpressionWithTypeArguments",
   "ParenthesizedType", "ExportDeclaration", "ImportDeclaration",
   "SourceFile", "AnyKeyword", "NumberKeyword", "ObjectKeyword",
   "BooleanKeyword", "StringKeyword", "SymbolKeyword", "UndefinedKeyword",
   "NullKeyword", "NeverKeyword", "IndexSignature"}

\* The types in which `void` is the first thing translation meets that can
\* throw:  void;  void[];  Array<void>;  (void);  void | number;
\* [string, void];  and these once more around each of them.
AroundFirst(t) ==
  { ArrayType(t), TypeReference("Array", NodeArray(<<t>>)),
    ParenthesizedType(t), UnionType(<<t, Keyword("NumberKeyword")>>),
    TupleType(<<Keyword("StringKeyword"), t>>) }
VoidFirst ==
  {Keyword("VoidKeyword")} \cup AroundFirst(Keyword("VoidKeyword"))
  \cup UNION {AroundFirst(t) : t \in AroundFirst(Keyword("VoidKeyword"))}

\* An import the first branch of _compileImportDeclaration does not take.
InlinedImportOf(chars) ==
  /\ node.kind = "ImportDeclaration"
  /\ options.inlineImports
  /\ node.moduleSpecifier.text = chars
  /\ \/ node.importClause = Undefined
     \/ node.importClause.namedBindings = Undefined
     \/ node.importClause.namedBindings.kind # "NamedImports"

\* C5: a node of a kind the switch has no case for is translated to '' when
\* it is a statement of a source file (the root file or an inlined one) and
\* throws "Node not supported" anywhere else; the throw ends the compilation
\* and nothing is returned.
C5_UnsupportedSkippedOnlyAtTopLevel ==
  /\ (node # Undefined /\ node.kind \notin SupportedKinds)
       => result = Dropped /\ pc = "returned"
  /\ (Tagged("TypeAliasDeclaration") /\ node.type \in VoidFirst)
       => Failed(NodeNotSupported("VoidKeyword"))
  /\ (Tagged("TypeAliasDeclaration")
      /\ node.type = TypeLiteral(<<MethodSignature(Identifier("f")),
                                  Keyword("CallSignature")>>))
       => Failed(NodeNotSupported("CallSignature"))
  /\ (Tagged("InterfaceDeclaration")
      /\ node.heritageClauses # Undefined
      /\ node.heritageClauses.elements[1].types[1].expression.kind
           = "PropertyAccessExpression"
      /\ (options.ignoreIndexSignature
          \/ \A i \in 1..Len(node.members) :
               node.members[i].kind # "IndexSignature"))
       => Failed(NodeNotSupported("PropertyAccessExpression"))
  \* foo.ts is  const k = 1;  interface A;  enum B
  /\ InlinedImportOf(Chars_foo)
       => /\ ~Threw(result)
          /\ Blocks(result.text) = 2
          /\ result.pushed = <<"A", "B">>
          /\ pc = "returned"
  \* the declaration of 'joi' is  declare module "joi" { }
  /\ InlinedImportOf(Chars_joi) => result = Dropped /\ pc = "returned"
  /\ (result # Undefined /\ Threw(result)) => pc = "failed"
  /\ pc = "failed" => returned = Undefined /\ Threw(result)

\* `type B = [string, void]` ended the compilation
C5_Witness ==
  /\ Tagged("TypeAliasDeclaration")
  /\ node.type = TupleType(<<Keyword("StringKeyword"), Keyword("VoidKeyword")>>)
  /\ Failed(NodeNotSupported("VoidKeyword"))
  /\ returned = Undefined

\* C6: with inlineImports set, an import from a relative module is translated
\* by translating the statements of that module in place, and no rewritten
\* import is emitted for it.
C6_RelativeImportInlined ==
  (node.kind = "ImportDeclaration" /\ options.inlineImports
   /\ IsRelative(node.moduleSpecifier))
    => /\ result.text.k # "import"
       /\ node.moduleSpecifier.text = Chars_foo
            => result.pushed = <<"A", "B">>

\* A tagged interface with `Array` among the types it extends.
ExtendsArray ==
  /\ Tagged("InterfaceDeclaration")
  /\ node.heritageClauses # Undefined
  /\ \E c \in 1..Len(node.heritageClauses.elements) :
       LET types == node.heritageClauses.elements[c].types
       IN  \E t \in 1..Len(types) : types[t].expression = Identifier("Array")
MemberThrows ==
  /\ ~options.ignoreIndexSignature
  /\ \E i \in 1..Len(node.members) : node.members[i].kind = "IndexSignature"
InheritedThrows ==
  \E c \in 1..Len(node.heritageClauses.elements) :
    LET types == node.heritageClauses.elements[c].types
    IN  \E t \in 1..Len(types) : types[t].expression.kind # "Identifier"

\* C7 as claimed: a tagged interface that extends Array is translated to ''
\* and its name is not exported, whatever its members are (stated here for
\* the interfaces that extend nothing but plain names).
C7_ArrayHeritageAlwaysDropped ==
  (ExtendsArray /\ ~InheritedThrows) => result = Dropped /\ pc = "returned"

\* C7 as amended: the name of a tagged interface that extends Array is never
\* exported; its translation is '' when translating its members and the
\* types it extends, which comes first, throws nothing, and otherwise the
\* throw of the first of them ends the compilation.
C7_ArrayHeritageDroppedAfterMembers ==
  ExtendsArray =>
    /\ result.pushed = <<>>
    /\ IF MemberThrows THEN Failed(NodeNotSupported("IndexSignature"))
       ELSE IF InheritedThrows
       THEN Failed(NodeNotSupported("PropertyAccessExpression"))
       ELSE result = Dropped /\ pc = "returned"

\* `interface A extends Array<T> { x: number; f(): void }` was dropped
C7_Witness ==
  /\ ExtendsArray
  /\ ~InheritedThrows
  /\ Len(node.members) = 2
  /\ node.members[1].kind = "PropertySignature"
  /\ node.members[2].kind = "MethodSignature"
  /\ result = Dropped
  /\ pc = "returned"

\* A tagged enum one of whose members has no constant value.
EnumWithUnresolvedMember ==
  /\ Tagged("EnumDeclaration")
  /\ \E i \in 1..Len(node.members) : node.members[i].constantValue = Undefined

\* C8 as claimed: a member whose constant value cannot be resolved makes the
\* compilation fail, and nothing is emitted for the enum.
C8_UnresolvedMemberFails ==
  EnumWithUnresolvedMember => Threw(result) /\ pc = "failed"

\* C8 as amended: a member whose constant value cannot be resolved does not
\* make the compilation fail: the enum is emitted and exported as usual, with
\* the text `undefined` in that member's place among the valid values.
C8_UnresolvedMemberIsUndefinedText ==
  EnumWithUnresolvedMember =>
    LET ms == node.members
        vs == result.text.expr.values
    IN  /\ ~Threw(result)
        /\ pc = "returned"
        /\ result.pushed = <<"A">>
        /\ result.text.k = "exportConst"
        /\ result.text.name = "A"
        /\ result.text.expr.k = "valid"
        /\ Len(vs) = Len(ms)
        /\ \A i \in 1..Len(ms) :
             vs[i] = IF ms[i].constantValue = Undefined THEN "undefined"
                     ELSE IF ms[i].constantValue = NumberValue(1) THEN "1"
                     ELSE "\"a\""

\* `enum A { a = <not a constant>, b = 1 }` was emitted
C8_Witness ==
  /\ EnumWithUnresolvedMember
  /\ node.members = <<EnumMember(Undefined), EnumMember(NumberValue(1))>>
  /\ result.text.expr.values = <<"undefined", "1">>
  /\ pc = "returned"

\* C9: exportedNames never holds a name twice.
C9_ExportedNamesUnique ==
  \A i, j \in 1..Len(exportedNames) :
    i # j => exportedNames[i] # exportedNames[j]

\* C10: the object shape of a type literal has an entry for each member whose
\* translation is not '', and none for a member whose translation is ''.
C10_TypeLiteralDropsEmptyMembers ==
  (Tagged("TypeAliasDeclaration") /\ node.type.kind = "TypeLiteral"
   /\ ~Threw(result))
    => LET es == result.text.expr.members
           kept_ == SelectSeq(node.type.members,
                              LAMBDA m : m.kind # "IndexSignature")
       IN  /\ \A i \in 1..Len(es) : es[i] # Empty
           /\ Len(es) = Len(kept_)
====
